---- MODULE Spec2Model ----
(***************************************************************************)
(* Model of the H264Decoder GDExtension (addons/h264_decoder): the YUV     *)
(* plane repacking done by H264Decoder::decode_frame once the decoding     *)
(* engine has delivered a frame, and the stateful IMA ADPCM stereo decoder *)
(* H264Decoder::decode_audio / decode_sample_ima.                          *)
(*                                                                         *)
(* Memory is modelled at byte granularity.  A destination buffer is a      *)
(* function from byte offsets 0..size-1 to bytes; a store whose offset is  *)
(* outside the buffer does not change the buffer and is recorded in the    *)
(* set oob of offsets written past its end.                                *)
(***************************************************************************)
EXTENDS Integers, Sequences, FiniteSets, TLC

VARIABLES
    width,          \* H264Decoder::width  (recorded frame width)
    height,         \* H264Decoder::height (recorded frame height)
    engine,         \* the decoding engine's session: pixel format, line padding,
                    \* whether it delivers a luma plane, and what freshly resized
                    \* buffer bytes hold
    frame,          \* the AVFrame handed over by avcodec_receive_frame in the last call
    result,         \* the PackedByteArray returned by the last decode_frame call
    oob,            \* offsets (relative to result) stored to outside result in that call
    last_sample_l,  \* H264Decoder::last_sample_l
    last_index_l,   \* H264Decoder::last_index_l
    last_sample_r,  \* H264Decoder::last_sample_r
    last_index_r,   \* H264Decoder::last_index_r
    lookup_ok,      \* every IMA_STEP_TABLE / IMA_INDEX_TABLE read so far was inside its table
    adpcm_in,       \* the argument of the last decode_audio call
    adpcm_out,      \* the PackedVector2Array returned by the last decode_audio call
    in_log,         \* all bytes passed to decode_audio so far (history)
    out_log,        \* all stereo pairs returned by decode_audio so far (history)
    ncalls,         \* number of decode_audio calls made (history)
    rep_byte        \* <<b>> once byte b is being fed repeatedly, <<>> while inputs are free

video_vars == <<width, height, engine, frame, result, oob>>
audio_vars == <<last_sample_l, last_index_l, last_sample_r, last_index_r, lookup_ok,
                adpcm_in, adpcm_out, in_log, out_log, ncalls, rep_byte>>
vars == <<width, height, engine, frame, result, oob,
          last_sample_l, last_index_l, last_sample_r, last_index_r, lookup_ok,
          adpcm_in, adpcm_out, in_log, out_log, ncalls, rep_byte>>

(***************************************************************************)
(* Bounds of the model.                                                    *)
(***************************************************************************)
MaxW == 4           \* frame widths 2..MaxW
MaxH == 4           \* frame heights 2..MaxH
MaxCallLen == 2     \* bytes per decode_audio call while the history is kept
MaxLog == 3         \* bytes decoded in all while the history is kept
MaxCalls == 3       \* decode_audio calls while the history is kept
MaxPrefix == 2      \* free decode_audio calls before one byte is fed repeatedly
RunLen == 12        \* length of the long single-byte inputs

(***************************************************************************)
(* The video boundary: frames as the decoding engine delivers them.        *)
(***************************************************************************)
Formats == {"YUV420P", "YUVJ420P", "NV12", "NV21", "YUV422P", "YUVJ422P", "OTHER"}

\* What a plane pointer frame->data[i] refers to: NULL, a plane of pixel data
\* (all bytes non-zero, all different), or a plane whose bytes at the six
\* positions the validity check samples are zero and whose other bytes are data.
PlaneKinds == {"null", "data", "zeroprobe"}

\* Contents a freshly resized PackedByteArray may hold before it is written.
AllocBytes == {0, 205}

\* Row padding of the engine's planes: linesize minus the bytes of a row.
Pads == {0, 1}

Engines ==
    [format : Formats, pad : Pads, luma : {"null", "data"}, alloc : AllocBytes]

\* The chroma planes of one frame, <<data[1], data[2]>>: both delivered, one
\* pointer NULL, or one plane failing the validity check.
ChromaCases ==
    {<<"data", "data">>, <<"null", "data">>, <<"data", "null">>,
     <<"zeroprobe", "data">>, <<"data", "zeroprobe">>}

Frames ==
    {[width |-> w, height |-> h, u |-> c[1], v |-> c[2]] :
        w \in 2..MaxW, h \in 2..MaxH, c \in ChromaCases}

NoFrame == [width |-> 0, height |-> 0, u |-> "null", v |-> "null"]

NEUTRAL == 128

\* frame->linesize[0]: bytes from one luma row to the next.
linesize0(e, f) == f.width + e.pad

\* frame->linesize[1] and frame->linesize[2]: the engine stores ceil(width/2)
\* chroma samples per row, one byte each in a planar chroma plane and an
\* interleaved byte pair each in the shared NV12/NV21 plane.
linesize1(e, f) ==
    IF e.format \in {"NV12", "NV21"}
    THEN 2 * ((f.width + 1) \div 2) + e.pad
    ELSE ((f.width + 1) \div 2) + e.pad

\* The offsets into a chroma plane that the validity check of decode_frame reads.
ProbeOffsets(w, h) ==
    LET uvw == w \div 2
        uvs == (w \div 2) * (h \div 2)
    IN  {0, uvw \div 2, uvw - 1, uvs \div 4, uvs \div 2, uvs - 1}

\* Pixel data: byte k of plane p (0 luma, 1 chroma-U or the shared plane,
\* 2 chroma-V).  Never 0 and never NEUTRAL, different at different offsets and
\* in different planes.
DataByte(p, k) == (CASE p = 0 -> 1 [] p = 1 -> 51 [] OTHER -> 151) + (k % 50)

PlaneKind(e, f, p) == CASE p = 0 -> e.luma [] p = 1 -> f.u [] OTHER -> f.v

\* frame->data[p] != NULL
Present(e, f, p) == PlaneKind(e, f, p) # "null"

\* frame->data[p][k]
PlaneByte(e, f, p, k) ==
    IF PlaneKind(e, f, p) = "zeroprobe" /\ k \in ProbeOffsets(f.width, f.height)
    THEN 0
    ELSE DataByte(p, k)

(***************************************************************************)
(* Stores into the destination buffer.  m = [buf, oob].                    *)
(***************************************************************************)
\* result.resize(total_size): total_size bytes of whatever the allocator left.
Resize(e, total_size) == [buf |-> [k \in 0..(total_size - 1) |-> e.alloc], oob |-> {}]

\* dst[at] = val
Store(m, at, val) ==
    IF at \in DOMAIN m.buf
    THEN [m EXCEPT !.buf[at] = val]
    ELSE [m EXCEPT !.oob = @ \cup {at}]

\* memcpy(dst + at, frame->data[p] + src, n)
Memcpy(m, at, e, f, p, src, n) ==
    [buf |-> [k \in DOMAIN m.buf |->
                IF at <= k /\ k < at + n THEN PlaneByte(e, f, p, src + (k - at))
                ELSE m.buf[k]],
     oob |-> m.oob \cup {k \in at..(at + n - 1) : k \notin DOMAIN m.buf}]

\* memset(dst + at, val, n)
Memset(m, at, val, n) ==
    [buf |-> [k \in DOMAIN m.buf |-> IF at <= k /\ k < at + n THEN val ELSE m.buf[k]],
     oob |-> m.oob \cup {k \in at..(at + n - 1) : k \notin DOMAIN m.buf}]

(***************************************************************************)
(* IMA ADPCM: H264Decoder::decode_sample_ima and H264Decoder::decode_audio.*)
(***************************************************************************)
IMA_INDEX_TABLE ==
    <<-1, -1, -1, -1, 2, 4, 6, 8,
      -1, -1, -1, -1, 2, 4, 6, 8>>

IMA_STEP_TABLE ==
    <<7, 8, 9, 10, 11, 12, 13, 14, 16, 17, 19, 21, 23, 25, 28, 31, 34, 37, 41, 45,
      50, 55, 60, 66, 73, 80, 88, 97, 107, 118, 130, 143, 157, 173, 190, 209, 230, 253, 279, 307,
      337, 371, 408, 449, 494, 544, 598, 658, 724, 796, 876, 963, 1060, 1166, 1282, 1411, 1552, 1707, 1878, 2066,
      2272, 2499, 2749, 3024, 3327, 3660, 4026, 4428, 4871, 5358, 5894, 6484, 7132, 7845, 8630, 9493, 10442, 11487, 12635, 13899,
      15289, 16818, 18500, 20350, 22385, 24623, 27086, 29794, 32767>>

\* nibble & mask, for a one-bit mask: whether that bit of nibble is set.
BitSet(nibble, mask) == (nibble \div mask) % 2 = 1

\* table[i] of a C array held as a sequence.  A read outside the array yields
\* no defined value; the caller records it through InTable.
InTable(table, i) == (i + 1) \in DOMAIN table
TableAt(table, i) == IF InTable(table, i) THEN table[i + 1] ELSE 0

\* Mutant of StepDiff: the step >> 3 term every nibble contributes is left out.
StepDiff_NoBase(nibble, step) ==
    (IF BitSet(nibble, 4) THEN step ELSE 0)
    + (IF BitSet(nibble, 2) THEN step \div 2 ELSE 0)
    + (IF BitSet(nibble, 1) THEN step \div 4 ELSE 0)

\* "Calculate difference": diff after the three conditional additions.
StepDiff(nibble, step) ==
    (step \div 8)
    + (IF BitSet(nibble, 4) THEN step ELSE 0)
    + (IF BitSet(nibble, 2) THEN step \div 2 ELSE 0)
    + (IF BitSet(nibble, 1) THEN step \div 4 ELSE 0)

\* Mutant of UpdatePredictor: the sign bit is read the wrong way round.
UpdatePredictor_SignInverted(nibble, predicted, diff) ==
    IF BitSet(nibble, 8) THEN predicted + diff ELSE predicted - diff

\* "Update predictor".
UpdatePredictor(nibble, predicted, diff) ==
    IF BitSet(nibble, 8) THEN predicted - diff ELSE predicted + diff

\* Mutant of ClampPredictor: only the upper limit is enforced.
ClampPredictor_UpperOnly(predicted) ==
    IF predicted > 32767 THEN 32767 ELSE predicted

\* "Clamp predictor to 16-bit PCM range".
ClampPredictor(predicted) ==
    IF predicted > 32767 THEN 32767
    ELSE IF predicted < -32768 THEN -32768
    ELSE predicted

\* The clamp of the updated index.
ClampIndex(index) ==
    IF index < 0 THEN 0
    ELSE IF index > 88 THEN 88
    ELSE index

\* (float)predicted / 32768.0f, exact for the 16-bit range, as a fraction.
NormalizedFloat(predicted) == [num |-> predicted, den |-> 32768]

\* decode_sample_ima(nibble, predicted, index): the new predicted and index, the
\* returned sample, and whether both table reads were inside their tables.
decode_sample_ima(nibble, predicted, index) ==
    LET step == TableAt(IMA_STEP_TABLE, index)
        diff == StepDiff(nibble, step)
        p == ClampPredictor(UpdatePredictor(nibble, predicted, diff))
        i == ClampIndex(index + TableAt(IMA_INDEX_TABLE, nibble))
    IN  [predicted |-> p,
         index |-> i,
         sample |-> NormalizedFloat(p),
         ok |-> InTable(IMA_STEP_TABLE, index) /\ InTable(IMA_INDEX_TABLE, nibble)]

\* The two channel states a decode_audio call starts from.
FreshChannels == [sl |-> 0, il |-> 0, sr |-> 0, ir |-> 0, ok |-> TRUE]

\* Mutant of MemberChannels: every call starts from the initial channel state.
MemberChannels_Reset == FreshChannels

\* The decoder's members as decode_audio passes them to decode_sample_ima.
MemberChannels ==
    [sl |-> last_sample_l, il |-> last_index_l,
     sr |-> last_sample_r, ir |-> last_index_r, ok |-> lookup_ok]

\* The loop of decode_audio from byte i (1-based) on: st is the channel state,
\* dst the output written so far.
RECURSIVE DecodeLoop(_, _, _, _)
DecodeLoop(st, src, i, dst) ==
    IF i > Len(src) THEN [st |-> st, dst |-> dst]
    ELSE LET byte == src[i]
             l == decode_sample_ima(byte \div 16, st.sl, st.il)
             r == decode_sample_ima(byte % 16, st.sr, st.ir)
             st2 == [sl |-> l.predicted, il |-> l.index,
                     sr |-> r.predicted, ir |-> r.index,
                     ok |-> st.ok /\ l.ok /\ r.ok]
         IN  DecodeLoop(st2, src, i + 1, Append(dst, <<l.sample, r.sample>>))

\* decode_audio(adpcm_data) run on channel state st: the state left behind and
\* the returned array.
decode_audio(st, adpcm_data) ==
    IF Len(adpcm_data) = 0 THEN [st |-> st, dst |-> <<>>]
    ELSE DecodeLoop(st, adpcm_data, 1, <<>>)

(***************************************************************************)
(* H264Decoder::decode_frame, from the frame delivered by the engine on.   *)
(***************************************************************************)
\* Mutant of UpdateDimensions: the recorded dimensions follow the frame only when
\* both of them changed.
UpdateDimensions_BothChanged(w0, h0, f) ==
    IF f.width # w0 /\ f.height # h0 THEN <<f.width, f.height>> ELSE <<w0, h0>>

\* "Update dimensions if changed": the recorded <<width, height>> after the check.
UpdateDimensions(w0, h0, f) ==
    IF f.width # w0 \/ f.height # h0 THEN <<f.width, f.height>> ELSE <<w0, h0>>

y_size(w, h) == w * h
uv_width(w) == w \div 2
uv_height(h) == h \div 2
uv_size(w, h) == uv_width(w) * uv_height(h)
total_size(w, h) == y_size(w, h) + (uv_size(w, h) * 2)

\* 1. Copy Y plane: the loop over the rows i..h-1.
RECURSIVE CopyLumaRows(_, _, _, _, _, _)
CopyLumaRows(m, e, f, w, h, i) ==
    IF i >= h THEN m
    ELSE CopyLumaRows(Memcpy(m, i * w, e, f, 0, i * linesize0(e, f), w), e, f, w, h, i + 1)

CopyLuma(m, e, f, w, h) ==
    IF Present(e, f, 0) THEN CopyLumaRows(m, e, f, w, h, 0) ELSE m

\* 2. Determine invalidity.
u_missing(e, f) == ~Present(e, f, 1)
v_missing(e, f) == ~Present(e, f, 2) /\ (e.format # "NV12" /\ e.format # "NV21")

\* The six-point check of plane p: all sampled bytes are 0.
AllProbesZero(e, f, p, w, h) ==
    /\ PlaneByte(e, f, p, 0) = 0
    /\ PlaneByte(e, f, p, uv_width(w) \div 2) = 0
    /\ PlaneByte(e, f, p, uv_width(w) - 1) = 0
    /\ PlaneByte(e, f, p, uv_size(w, h) \div 4) = 0
    /\ PlaneByte(e, f, p, uv_size(w, h) \div 2) = 0
    /\ PlaneByte(e, f, p, uv_size(w, h) - 1) = 0

u_invalid(e, f, w, h) ==
    IF ~u_missing(e, f) THEN AllProbesZero(e, f, 1, w, h) ELSE FALSE

v_invalid(e, f, w, h) ==
    IF ~v_missing(e, f) /\ Present(e, f, 2) THEN AllProbesZero(e, f, 2, w, h) ELSE FALSE

\* Mutant of NeedsGrey: a missing V plane is not taken as a reason to fill.
NeedsGrey_IgnoresMissingV(e, f, w, h) ==
    u_missing(e, f) \/ u_invalid(e, f, w, h) \/ v_invalid(e, f, w, h)

\* 3. Pre-fill UV with grey if anything is fishy.
NeedsGrey(e, f, w, h) ==
    u_missing(e, f) \/ v_missing(e, f) \/ u_invalid(e, f, w, h) \/ v_invalid(e, f, w, h)

PreFill(m, e, f, w, h) ==
    IF NeedsGrey(e, f, w, h) THEN Memset(m, y_size(w, h), NEUTRAL, uv_size(w, h) * 2) ELSE m

\* 4. The row loop of the planar formats, rows i..uv_height-1.  Source row
\* i * step of each chroma plane: step 1 for YUV420P/YUVJ420P, 2 for
\* YUV422P/YUVJ422P.
RECURSIVE CopyPlanarRows(_, _, _, _, _, _, _)
CopyPlanarRows(m, e, f, w, h, step, i) ==
    IF i >= uv_height(h) THEN m
    ELSE LET row_dst == y_size(w, h) + (i * w)
             m1 == Memcpy(m, row_dst, e, f, 1, i * step * linesize1(e, f), uv_width(w))
             m2 == Memcpy(m1, row_dst + uv_width(w), e, f, 2,
                          i * step * linesize1(e, f), uv_width(w))
         IN  CopyPlanarRows(m2, e, f, w, h, step, i + 1)

\* The inner loop of the NV12/NV21 branch: columns x..uv_width-1 of row i.
RECURSIVE DeinterleaveRow(_, _, _, _, _, _, _)
DeinterleaveRow(m, e, f, w, h, i, x) ==
    IF x >= uv_width(w) THEN m
    ELSE LET row_dst == y_size(w, h) + (i * w)
             uv_src_row == i * linesize1(e, f)
             is_nv12 == (e.format = "NV12")
             m1 == Store(m, row_dst + x,
                         IF is_nv12 THEN PlaneByte(e, f, 1, uv_src_row + (x * 2))
                         ELSE PlaneByte(e, f, 1, uv_src_row + (x * 2) + 1))
             m2 == Store(m1, row_dst + uv_width(w) + x,
                         IF is_nv12 THEN PlaneByte(e, f, 1, uv_src_row + (x * 2) + 1)
                         ELSE PlaneByte(e, f, 1, uv_src_row + (x * 2)))
         IN  DeinterleaveRow(m2, e, f, w, h, i, x + 1)

\* The outer loop of the NV12/NV21 branch, rows i..uv_height-1.
RECURSIVE DeinterleaveRows(_, _, _, _, _, _)
DeinterleaveRows(m, e, f, w, h, i) ==
    IF i >= uv_height(h) THEN m
    ELSE DeinterleaveRows(DeinterleaveRow(m, e, f, w, h, i, 0), e, f, w, h, i + 1)

\* 4. Copying based on format.
CopyChroma(m, e, f, w, h) ==
    IF e.format \in {"YUV420P", "YUVJ420P"}
    THEN IF ~u_missing(e, f) /\ ~v_missing(e, f)
         THEN CopyPlanarRows(m, e, f, w, h, 1, 0) ELSE m
    ELSE IF e.format \in {"NV12", "NV21"}
    THEN IF ~u_missing(e, f) THEN DeinterleaveRows(m, e, f, w, h, 0) ELSE m
    ELSE IF e.format \in {"YUV422P", "YUVJ422P"}
    THEN IF ~u_missing(e, f) /\ ~v_missing(e, f)
         THEN CopyPlanarRows(m, e, f, w, h, 2, 0) ELSE m
    ELSE m

\* The buffer built for frame f with recorded dimensions w, h.
Repack(e, f, w, h) ==
    CopyChroma(PreFill(CopyLuma(Resize(e, total_size(w, h)), e, f, w, h), e, f, w, h),
               e, f, w, h)

\* decode_frame when the engine delivers frame f.
DecodeFrame(f) ==
    LET dims == UpdateDimensions(width, height, f)
        m == Repack(engine, f, dims[1], dims[2])
    IN  /\ width' = dims[1]
        /\ height' = dims[2]
        /\ frame' = f
        /\ result' = m.buf
        /\ oob' = m.oob
        /\ UNCHANGED <<engine, audio_vars>>

\* decode_frame when it returns early: empty input, no decoder, the engine
\* rejects the packet or has no frame yet.  The returned array is empty.
DecodeFrameNoOutput ==
    /\ frame' = NoFrame
    /\ result' = <<>>
    /\ oob' = {}
    /\ UNCHANGED <<width, height, engine, audio_vars>>

InitAudioVars ==
    /\ last_sample_l = 0
    /\ last_index_l = 0
    /\ last_sample_r = 0
    /\ last_index_r = 0
    /\ lookup_ok = TRUE
    /\ adpcm_in = <<>>
    /\ adpcm_out = <<>>
    /\ in_log = <<>>
    /\ out_log = <<>>
    /\ ncalls = 0
    /\ rep_byte = <<>>

\* The effect of decode_audio(adpcm_data) on the decoder's members, and its result.
AudioCall(adpcm_data) ==
    LET r == decode_audio(MemberChannels, adpcm_data)
    IN  /\ last_sample_l' = r.st.sl
        /\ last_index_l' = r.st.il
        /\ last_sample_r' = r.st.sr
        /\ last_index_r' = r.st.ir
        /\ lookup_ok' = r.st.ok
        /\ adpcm_in' = adpcm_data
        /\ adpcm_out' = r.dst

\* Input bytes: both nibbles 0x0, both 0xF, 0x7 left with 0xF right, 0xC left
\* with 0x4 right.
AudioBytes == {0, 255, 127, 196}

RECURSIVE SeqsUpTo(_, _)
SeqsUpTo(S, n) ==
    IF n = 0 THEN {<<>>}
    ELSE LET shorter == SeqsUpTo(S, n - 1)
         IN  shorter \cup {Append(q, b) : q \in {x \in shorter : Len(x) = n - 1}, b \in S}

Run(b, n) == [k \in 1..n |-> b]

\* decode_audio with the whole input and output history kept.
DecodeAudio(adpcm_data) ==
    /\ ncalls < MaxCalls
    /\ Len(in_log) + Len(adpcm_data) <= MaxLog
    /\ AudioCall(adpcm_data)
    /\ in_log' = in_log \o adpcm_data
    /\ out_log' = out_log \o adpcm_out'
    /\ ncalls' = ncalls + 1
    /\ UNCHANGED <<video_vars, rep_byte>>

\* The inputs of the free calls that precede a repeated byte: nothing, one byte,
\* three 0x00 bytes, or a long run of one byte.
PrefixInputs ==
    {<<>>, <<0, 0, 0>>} \cup {<<b>> : b \in AudioBytes} \cup {Run(b, RunLen) : b \in AudioBytes}

\* decode_audio on a free input, before any byte is fed repeatedly.
PrefixCall(adpcm_data) ==
    /\ rep_byte = <<>>
    /\ ncalls < MaxPrefix
    /\ AudioCall(adpcm_data)
    /\ ncalls' = ncalls + 1
    /\ UNCHANGED <<video_vars, in_log, out_log, rep_byte>>

\* The bytes fed repeatedly.
RepeatBytes == {0, 255}

\* decode_audio on the single byte b, from the moment on that only b is fed.
RepeatCall(b) ==
    /\ rep_byte \in {<<>>, <<b>>}
    /\ AudioCall(<<b>>)
    /\ rep_byte' = <<b>>
    /\ UNCHANGED <<video_vars, in_log, out_log, ncalls>>

InitAudio ==
    /\ width = 0
    /\ height = 0
    /\ engine = [format |-> "YUV420P", pad |-> 0, luma |-> "data", alloc |-> 0]
    /\ frame = NoFrame
    /\ result = <<>>
    /\ oob = {}
    /\ InitAudioVars

NextAudio == \E adpcm_data \in SeqsUpTo(AudioBytes, MaxCallLen) : DecodeAudio(adpcm_data)

SpecAudio == InitAudio /\ [][NextAudio]_vars

Repeat == \E b \in RepeatBytes : RepeatCall(b)

NextAdpcm ==
    \/ \E adpcm_data \in PrefixInputs : PrefixCall(adpcm_data)
    \/ Repeat

\* The repeated byte keeps being fed: the decoder is called again and again.
SpecAdpcm == InitAudio /\ [][NextAdpcm]_vars /\ WF_vars(Repeat)

InitVideo ==
    /\ width = 0
    /\ height = 0
    /\ engine \in Engines
    /\ frame = NoFrame
    /\ result = <<>>
    /\ oob = {}
    /\ InitAudioVars

NextVideo ==
    \/ \E f \in Frames : DecodeFrame(f)
    \/ DecodeFrameNoOutput

SpecVideo == InitVideo /\ [][NextVideo]_vars

(***************************************************************************)
(* Claims about the plane repacker, checked under SpecVideo.               *)
(***************************************************************************)
Delivered == frame # NoFrame

EvenDims == frame.width % 2 = 0 /\ frame.height % 2 = 0

\* Offsets of the two chroma regions of the returned buffer.
ChromaRegion ==
    y_size(frame.width, frame.height)..(total_size(frame.width, frame.height) - 1)

ChromaAllNeutral == \A k \in ChromaRegion : k \in DOMAIN result /\ result[k] = NEUTRAL

\* The U and V samples of the delivered frame at chroma position (row, col), as
\* the frame's format stores them.
SourceU(row, col) ==
    CASE engine.format = "NV12" ->
            PlaneByte(engine, frame, 1, row * linesize1(engine, frame) + 2 * col)
      [] engine.format = "NV21" ->
            PlaneByte(engine, frame, 1, row * linesize1(engine, frame) + 2 * col + 1)
      [] OTHER ->
            PlaneByte(engine, frame, 1, row * linesize1(engine, frame) + col)

SourceV(row, col) ==
    CASE engine.format = "NV12" ->
            PlaneByte(engine, frame, 1, row * linesize1(engine, frame) + 2 * col + 1)
      [] engine.format = "NV21" ->
            PlaneByte(engine, frame, 1, row * linesize1(engine, frame) + 2 * col)
      [] OTHER ->
            PlaneByte(engine, frame, 2, row * linesize1(engine, frame) + col)

\* A chroma plane that is there and whose six probe bytes are all zero.
Suspect(p) ==
    Present(engine, frame, p) /\ AllProbesZero(engine, frame, p, frame.width, frame.height)

\* Chroma the claims call present and non-suspect: the planes the format needs
\* are there and none of them fails the six-point check.
ChromaUsable ==
    /\ Present(engine, frame, 1)
    /\ Present(engine, frame, 2) \/ engine.format \in {"NV12", "NV21"}
    /\ ~Suspect(1)
    /\ ~Suspect(2)

\* C1: for PLANAR_420, NV_UFIRST and NV_VFIRST frames with usable chroma and even
\* dimensions the returned buffer is [luma][U block][V block], each block tightly
\* packed: U(row, col) is at w*h + row*(w/2) + col and V(row, col) at
\* w*h + (w/2)*(h/2) + row*(w/2) + col.
C1_CanonicalLayout ==
    (/\ Delivered
     /\ engine.format \in {"YUV420P", "YUVJ420P", "NV12", "NV21"}
     /\ ChromaUsable
     /\ EvenDims)
    => LET w == frame.width
           h == frame.height
       IN  \A row \in 0..(h \div 2 - 1), col \in 0..(w \div 2 - 1) :
              /\ result[w * h + row * (w \div 2) + col] = SourceU(row, col)
              /\ result[w * h + (w \div 2) * (h \div 2) + row * (w \div 2) + col]
                    = SourceV(row, col)

\* C2: a chroma plane whose six probe bytes are all zero makes every byte of both
\* output chroma regions 128.
C2_SuspectPlaneGrey ==
    (Delivered /\ (Suspect(1) \/ Suspect(2))) => ChromaAllNeutral

\* C3 as claimed: for every format, a null chroma-U or chroma-V pointer makes every
\* byte of both output chroma regions 128.
C3_NullPlaneGrey ==
    (Delivered /\ (~Present(engine, frame, 1) \/ ~Present(engine, frame, 2)))
    => ChromaAllNeutral

\* C3 as amended: a null chroma-U pointer, or a null chroma-V pointer in a format
\* other than the semiplanar NV12/NV21 (which keep both in plane 1), makes every
\* byte of both output chroma regions 128.
C3_MissingPlaneGrey ==
    (/\ Delivered
     /\ \/ ~Present(engine, frame, 1)
        \/ ~Present(engine, frame, 2) /\ engine.format \notin {"NV12", "NV21"})
    => ChromaAllNeutral

\* A planar frame of two chroma rows whose V pointer is null came back all grey.
C3_Witness ==
    /\ Delivered
    /\ engine.format = "YUV420P"
    /\ frame.u = "data" /\ frame.v = "null"
    /\ frame.width = 4 /\ frame.height = 4
    /\ ChromaAllNeutral

\* C4: for a frame of an unrecognized format every byte of both output chroma
\* regions is 128, whatever the planes hold.
C4_UnknownFormatGrey ==
    (Delivered /\ engine.format = "OTHER") => ChromaAllNeutral

C10_WritesInBounds ==
    Delivered =>
      /\ oob = {}
      /\ (EvenDims /\ ChromaUsable /\ engine.format # "OTHER")
            => \A k \in ChromaRegion :
                  k \in DOMAIN result /\ result[k] \notin {NEUTRAL} \cup AllocBytes

(***************************************************************************)
(* Claims about the ADPCM decoder.                                         *)
(***************************************************************************)
Abs(x) == IF x < 0 THEN 0 - x ELSE x

\* A sample in [-1.0, 1.0].
InUnitRange(sample) == 0 - sample.den <= sample.num /\ sample.num <= sample.den

\* C6: after any sequence of decode_audio calls each predictor is in
\* [-32768, 32767] and each step index in [0, 88], every table read was inside
\* its table, and every emitted sample is in [-1.0, 1.0].  Checked under SpecAdpcm.
C6_StateInRange ==
    /\ last_sample_l \in -32768..32767
    /\ last_sample_r \in -32768..32767
    /\ last_index_l \in 0..88
    /\ last_index_r \in 0..88
    /\ lookup_ok
    /\ \A k \in DOMAIN adpcm_out : InUnitRange(adpcm_out[k][1]) /\ InUnitRange(adpcm_out[k][2])

\* One call drove the left channel into the upper clamp and the right channel
\* into the lower clamp, both step indices into the last table entry.
C6_Witness ==
    /\ last_sample_l = 32767 /\ last_index_l = 88
    /\ last_sample_r = -32768 /\ last_index_r = 88
    /\ Len(adpcm_in) = RunLen

\* C7: the channel state is carried across calls.  Each call returns one stereo
\* pair per input byte, and the outputs of all calls so far, concatenated, and
\* the channel state now are those of one decode_audio call on all their inputs,
\* concatenated, made from the initial state; an empty input returns an empty
\* output (and, the history being unchanged by it, leaves the state as it was).
\* Checked under SpecAudio.
C7_StateCarriedAcrossCalls ==
    LET whole == decode_audio(FreshChannels, in_log)
    IN  /\ Len(adpcm_out) = Len(adpcm_in)
        /\ Len(out_log) = Len(in_log)
        /\ whole.dst = out_log
        /\ whole.st.sl = last_sample_l /\ whole.st.il = last_index_l
        /\ whole.st.sr = last_sample_r /\ whole.st.ir = last_index_r

\* Three bytes went in through more than one call, the last call non-empty and
\* made on channels a previous call had moved.
C7_Witness ==
    /\ ncalls >= 2
    /\ Len(in_log) = 3
    /\ adpcm_in # <<>>
    /\ Len(adpcm_in) < Len(in_log)
    /\ out_log[1] # <<NormalizedFloat(0), NormalizedFloat(0)>>

\* One more 0xFF byte has just been, or is being, decoded.
FeedingFF == rep_byte = <<255>>
FeedingZero == rep_byte = <<0>>

BottomedOut ==
    /\ last_sample_l = -32768 /\ last_index_l = 88
    /\ last_sample_r = -32768 /\ last_index_r = 88

\* C8: while 0xFF is decoded again and again, every byte makes each predictor
\* strictly smaller unless it leaves it clamped at -32768, no step index ever
\* decreases, and eventually both predictors are -32768 and both step indices 88,
\* and stay so.  Checked under SpecAdpcm.
C8_RepeatedFF ==
    /\ [][FeedingFF' =>
            /\ last_sample_l' < last_sample_l \/ last_sample_l' = -32768
            /\ last_sample_r' < last_sample_r \/ last_sample_r' = -32768
            /\ last_sample_l = -32768 => last_sample_l' = -32768
            /\ last_sample_r = -32768 => last_sample_r' = -32768
            /\ last_index_l' >= last_index_l
            /\ last_index_r' >= last_index_r]_vars
    /\ [](FeedingFF => <>[]BottomedOut)

\* 0xFF was fed until both channels were at -32768 with step index 88.
C8_Witness == FeedingFF /\ BottomedOut

IndexAtZero == last_index_l = 0 /\ last_index_r = 0

\* From the fresh state the input [0x00, 0x00, 0x00] returns three identical pairs.
ThreeZeroBytes ==
    (/\ MemberChannels = FreshChannels
     /\ adpcm_in' = <<0, 0, 0>>)
    => /\ Len(adpcm_out') = 3
       /\ adpcm_out'[1] = adpcm_out'[2]
       /\ adpcm_out'[2] = adpcm_out'[3]

\* C9 as claimed: while 0x00 is decoded again and again, the absolute value of
\* each predictor never increases from one byte to the next, no step index
\* increases and both eventually reach 0; from the fresh state [0x00, 0x00, 0x00]
\* returns three identical pairs.
C9_RepeatedZeroTowardZero ==
    /\ [][FeedingZero' =>
            /\ Abs(last_sample_l') <= Abs(last_sample_l)
            /\ Abs(last_sample_r') <= Abs(last_sample_r)
            /\ last_index_l' <= last_index_l
            /\ last_index_r' <= last_index_r]_vars
    /\ [][ThreeZeroBytes]_vars
    /\ [](FeedingZero => <>[]IndexAtZero)

\* What one 0x00 byte does to a predictor at step index `index`.
AfterZeroNibble(predicted, index) ==
    IF predicted + (IMA_STEP_TABLE[index + 1] \div 8) > 32767 THEN 32767
    ELSE predicted + (IMA_STEP_TABLE[index + 1] \div 8)

\* C9 as amended: while 0x00 is decoded again and again, no predictor ever
\* decreases: each byte adds step >> 3 of the current step to it (clamped at
\* 32767), which is nothing once the step index is 0; no step index increases
\* and both eventually reach 0 and stay there; from the fresh state
\* [0x00, 0x00, 0x00] returns three identical pairs.  Checked under SpecAdpcm.
C9_RepeatedZeroNeverDown ==
    /\ [][FeedingZero' =>
            /\ last_sample_l' >= last_sample_l
            /\ last_sample_r' >= last_sample_r
            /\ last_sample_l' = AfterZeroNibble(last_sample_l, last_index_l)
            /\ last_sample_r' = AfterZeroNibble(last_sample_r, last_index_r)
            /\ last_index_l = 0 => last_sample_l' = last_sample_l
            /\ last_index_r = 0 => last_sample_r' = last_sample_r
            /\ last_index_l' <= last_index_l
            /\ last_index_r' <= last_index_r]_vars
    /\ [][ThreeZeroBytes]_vars
    /\ [](FeedingZero => <>[]IndexAtZero)

\* 0x00 was fed, from step index 88 on a channel, until both step indices were 0,
\* and a predictor that started positive has not come down to 0.
C9_Witness ==
    /\ FeedingZero
    /\ IndexAtZero
    /\ last_sample_l = 32767

====
